---------------------------- MODULE Spec2Model ----------------------------
(***************************************************************************)
(* Model of airflow/decorators/python.py: the adapter class                *)
(* _PythonDecoratedOperator and the three decoration entry points          *)
(* python_task, PythonDecoratorMixin.python, PythonDecoratorMixin.__call__.*)
(*                                                                         *)
(* Objects live on heaps and are named by references (positive integers),  *)
(* so that "the same object" and "an equal object" are different things:   *)
(*   fn_heap      callable objects                                         *)
(*   args_heap    positional-argument containers (op_args)                 *)
(*   kwargs_heap  keyword-argument containers (op_kwargs), as sets of      *)
(*                <<name, value>> pairs                                    *)
(* A keyword bag is a function from the keys that are present to their     *)
(* values.  Python's None / True / False for the multiple_outputs flag are *)
(* the strings "None", "True", "False"; an absent callable is NoneRef.     *)
(*                                                                         *)
(* An exception that leaves an operation reaches the call site and is kept *)
(* in `raised`; the workflow definition stops there.                       *)
(***************************************************************************)
EXTENDS Integers, Sequences, FiniteSets, TLC

VARIABLES
    class_attrs,    \* class-level declarations of _PythonDecoratedOperator
    tasks,          \* values returned to the call sites of the entry points
    nodes,          \* task nodes, in construction order
    fn_heap,        \* callable objects
    args_heap,      \* op_args containers
    kwargs_heap,    \* op_kwargs containers
    invocations,    \* calls of a wrapped callable, in call order
    base_calls,     \* calls of the base node-construction routine so far
    raised          \* the exception that reached the call site, or NoError

vars == <<class_attrs, tasks, nodes, fn_heap, args_heap, kwargs_heap,
          invocations, base_calls, raised>>

---------------------------------------------------------------------------
(* Bounds *)

\* decoration and wrapping requests in one workflow definition
MaxRequests == 3
\* direct constructions of the adapter class
MaxNodes == 1
\* duplications, in-place changes and executions of nodes
MaxOps == 2

---------------------------------------------------------------------------
(* Input domains *)
(* The callables, flags, configurations and call arguments the call sites  *)
(* pass.  A configuration with the key decorated_operator_class repeats a  *)
(* keyword the entry points pass themselves.                               *)

NoneRef == 0
\* the callable objects of the workflow file: fn_heap[1] = "f", fn_heap[2] = "g"
InitialCallables == <<"f", "g">>
CallableRefs == 1..Len(InitialCallables)
Flags == {"None", "True", "False"}
ExtraConfigs == {"retries" :> 1, "decorated_operator_class" :> 1}
\* the (*args, **kwargs) a wrapped task is invoked with
CallArgs == {[args |-> <<2, 3>>, kwargs |-> {}],
             [args |-> <<3, 2>>, kwargs |-> {<<"a", 1>>}]}
RequiredKeys == {"python_callable", "op_args", "op_kwargs"}
OptionalKeys == {"multiple_outputs", "kwargs_to_upstream"}

NoError == [kind |-> "none", site |-> "none", missing |-> {}]

---------------------------------------------------------------------------
(* Class-level declarations of _PythonDecoratedOperator *)

\* Mutant: the callable is declared a template field as well.
template_fields_WithCallable == <<"op_args", "op_kwargs", "python_callable">>

template_fields == <<"op_args", "op_kwargs">>

template_fields_renderers == [op_args |-> "py", op_kwargs |-> "py"]

\* Mutant: op_args is declared shallow-copied as well.
shallow_copy_attrs_WithArgs == <<"python_callable", "op_args">>

shallow_copy_attrs == <<"python_callable">>

Range(s) == {s[i] : i \in DOMAIN s}

---------------------------------------------------------------------------
(* _PythonDecoratedOperator.__init__(self, **kwargs)                        *)

\* kwargs["k"] on a dict without the key raises KeyError: the
\* "MissingArgumentError" kind.
MissingArgumentError == "KeyError"

\* The dict literal of lines 53-57; its three subscripts are evaluated in
\* source order, and the first absent key raises.
FirstMissing(kwargs) ==
    IF "python_callable" \notin DOMAIN kwargs THEN "python_callable"
    ELSE IF "op_args" \notin DOMAIN kwargs THEN "op_args"
    ELSE IF "op_kwargs" \notin DOMAIN kwargs THEN "op_kwargs"
    ELSE "none"

\* Mutant: the whole bag is forwarded as the upstream bundle.
kwargs_to_upstream_WholeBag(kwargs) == kwargs

\* Mutant: op_args is taken from a container kept from the first
\* construction instead of from this call's bag.
kwargs_to_upstream_SharedArgs(kwargs) ==
    [python_callable |-> kwargs["python_callable"],
     op_args |-> 1,
     op_kwargs |-> kwargs["op_kwargs"]]

kwargs_to_upstream(kwargs) ==
    [python_callable |-> kwargs["python_callable"],
     op_args |-> kwargs["op_args"],
     op_kwargs |-> kwargs["op_kwargs"]]

\* Mutant: op_kwargs is read with a default (kwargs.get) instead of a
\* subscript, so a bag without it is accepted.
PythonDecoratedOperator_init_DefaultKwargs(kwargs) ==
    IF "python_callable" \notin DOMAIN kwargs
    THEN [kind |-> "KeyError", key |-> "python_callable", invoked |-> <<>>]
    ELSE IF "op_args" \notin DOMAIN kwargs
    THEN [kind |-> "KeyError", key |-> "op_args", invoked |-> <<>>]
    ELSE IF "kwargs_to_upstream" \in DOMAIN kwargs
    THEN [kind |-> "TypeError", key |-> "kwargs_to_upstream", invoked |-> <<>>]
    ELSE [kind |-> "super", key |-> "none", invoked |-> <<>>,
          kwargs_to_upstream |->
              [python_callable |-> kwargs["python_callable"],
               op_args |-> kwargs["op_args"],
               op_kwargs |-> IF "op_kwargs" \in DOMAIN kwargs
                             THEN kwargs["op_kwargs"] ELSE 0],
          kwargs |-> kwargs]

\* Mutant: the callable is called once during construction.
PythonDecoratedOperator_init_CallsCallable(kwargs) ==
    IF \E k \in {"python_callable", "op_args", "op_kwargs"} : k \notin DOMAIN kwargs
    THEN [kind |-> "KeyError", key |-> "none", invoked |-> <<>>]
    ELSE IF "kwargs_to_upstream" \in DOMAIN kwargs
    THEN [kind |-> "TypeError", key |-> "kwargs_to_upstream", invoked |-> <<>>]
    ELSE [kind |-> "super", key |-> "none",
          invoked |-> <<kwargs["python_callable"]>>,
          kwargs_to_upstream |->
              [python_callable |-> kwargs["python_callable"],
               op_args |-> kwargs["op_args"],
               op_kwargs |-> kwargs["op_kwargs"]],
          kwargs |-> kwargs]

\* Mutant: a kwargs_to_upstream key in the bag is dropped silently instead
\* of failing the super call.
PythonDecoratedOperator_init_DropsDuplicate(kwargs) ==
    IF \E k \in {"python_callable", "op_args", "op_kwargs"} : k \notin DOMAIN kwargs
    THEN [kind |-> "KeyError", key |-> "none", invoked |-> <<>>]
    ELSE [kind |-> "super", key |-> "none", invoked |-> <<>>,
          kwargs_to_upstream |->
              [python_callable |-> kwargs["python_callable"],
               op_args |-> kwargs["op_args"],
               op_kwargs |-> kwargs["op_kwargs"]],
          kwargs |-> [k \in DOMAIN kwargs \ {"kwargs_to_upstream"} |-> kwargs[k]]]

\* What __init__ does up to and including the call of super().__init__:
\*   kind "KeyError"   a required key is absent (raised before the super call)
\*   kind "TypeError"  kwargs itself has a key kwargs_to_upstream, so the
\*                     super call gets that keyword twice
\*   kind "super"      super().__init__(kwargs_to_upstream=..., **kwargs)
\* `invoked` lists the calls of the wrapped callable made on the way: none.
PythonDecoratedOperator_init(kwargs) ==
    IF FirstMissing(kwargs) # "none"
    THEN [kind |-> MissingArgumentError, key |-> FirstMissing(kwargs),
          invoked |-> <<>>]
    ELSE IF "kwargs_to_upstream" \in DOMAIN kwargs
    THEN [kind |-> "TypeError", key |-> "kwargs_to_upstream", invoked |-> <<>>]
    ELSE [kind |-> "super", key |-> "none", invoked |-> <<>>,
          kwargs_to_upstream |-> kwargs_to_upstream(kwargs),
          kwargs |-> kwargs]

---------------------------------------------------------------------------
(* Entry points.  Each returns the call it issues to task_decorator_factory,*)
(* or the TypeError Python raises when **kwargs repeats the keyword         *)
(* decorated_operator_class that the entry point passes itself.            *)

AdapterClass == "_PythonDecoratedOperator"

\* Mutant: without a callable the extra configuration is not forwarded.
python_task_DeferredDropsConfig(python_callable, multiple_outputs, kwargs) ==
    IF "decorated_operator_class" \in DOMAIN kwargs
    THEN [kind |-> "TypeError"]
    ELSE [kind |-> "call",
          python_callable |-> python_callable,
          multiple_outputs |-> multiple_outputs,
          decorated_operator_class |-> "_PythonDecoratedOperator",
          kwargs |-> IF python_callable = 0 THEN <<>> ELSE kwargs]

\* Mutant: an omitted flag is coerced to False.
python_task_CoercesFlag(python_callable, multiple_outputs, kwargs) ==
    IF "decorated_operator_class" \in DOMAIN kwargs
    THEN [kind |-> "TypeError"]
    ELSE [kind |-> "call",
          python_callable |-> python_callable,
          multiple_outputs |-> IF multiple_outputs = "None" THEN "False"
                               ELSE multiple_outputs,
          decorated_operator_class |-> "_PythonDecoratedOperator",
          kwargs |-> kwargs]

python_task(python_callable, multiple_outputs, kwargs) ==
    IF "decorated_operator_class" \in DOMAIN kwargs
    THEN [kind |-> "TypeError"]
    ELSE [kind |-> "call",
          python_callable |-> python_callable,
          multiple_outputs |-> multiple_outputs,
          decorated_operator_class |-> AdapterClass,
          kwargs |-> kwargs]

\* Mutant: the method does not forward multiple_outputs.
Mixin_python_DropsFlag(python_callable, multiple_outputs, kwargs) ==
    IF "decorated_operator_class" \in DOMAIN kwargs
    THEN [kind |-> "TypeError"]
    ELSE [kind |-> "call",
          python_callable |-> python_callable,
          multiple_outputs |-> "None",
          decorated_operator_class |-> "_PythonDecoratedOperator",
          kwargs |-> kwargs]

Mixin_python(python_callable, multiple_outputs, kwargs) ==
    IF "decorated_operator_class" \in DOMAIN kwargs
    THEN [kind |-> "TypeError"]
    ELSE [kind |-> "call",
          python_callable |-> python_callable,
          multiple_outputs |-> multiple_outputs,
          decorated_operator_class |-> AdapterClass,
          kwargs |-> kwargs]

Mixin_call(python_callable, multiple_outputs, kwargs) ==
    Mixin_python(python_callable, multiple_outputs, kwargs)

---------------------------------------------------------------------------
(* Collaborators: the Factory Dispatch, the base node-construction routine *)
(* and the generic node-duplication routine.                               *)

\* task_decorator_factory(python_callable, multiple_outputs,
\*                        decorated_operator_class, **kwargs):
\* a wrapped task when a callable is given, a decorator awaiting one otherwise.
task_decorator_factory(call) ==
    [kind |-> IF call.python_callable # NoneRef THEN "Completed" ELSE "Pending",
     python_callable |-> call.python_callable,
     multiple_outputs |-> call.multiple_outputs,
     decorated_operator_class |-> call.decorated_operator_class,
     kwargs |-> call.kwargs]

\* A pending decorator applied to the callable f.
ApplyDecorator(d, f) ==
    [d EXCEPT !.kind = "Completed", !.python_callable = f]

\* The keyword bag a wrapped task hands to its adapter class when it is
\* invoked with fresh containers args_ref and kwargs_ref.
FactoryBag(t, args_ref, kwargs_ref) ==
    ("python_callable" :> t.python_callable) @@ ("op_args" :> args_ref)
    @@ ("op_kwargs" :> kwargs_ref)
    @@ ("multiple_outputs" :> t.multiple_outputs) @@ t.kwargs

\* The base node-construction routine: it publishes the upstream bundle as
\* the node's fields and keeps the rest of the bag as configuration.
\* multiple_outputs defaults to False.
BaseInit(upstream, kwargs) ==
    [python_callable |-> upstream["python_callable"],
     op_args |-> upstream["op_args"],
     op_kwargs |-> upstream["op_kwargs"],
     multiple_outputs |-> IF "multiple_outputs" \in DOMAIN kwargs
                          THEN kwargs["multiple_outputs"] ELSE "False",
     config |-> [k \in DOMAIN kwargs \ (RequiredKeys \cup {"multiple_outputs"})
                 |-> kwargs[k]],
     kwargs_to_upstream |-> upstream]

\* The duplication routine's treatment of attribute attr holding reference
\* ref: listed in shallow_copy_attrs, the clone shares the object;
\* otherwise it gets the copy allocated at fresh.
CopyAttr(attr, ref, fresh) ==
    IF attr \in Range(class_attrs.shallow_copy_attrs) THEN ref ELSE fresh

---------------------------------------------------------------------------
(* State *)

Failed == raised # NoError

NodeIds == 1..Len(nodes)

Clones == {n \in NodeIds : nodes[n].clone_of # 0}

Built == {n \in NodeIds : nodes[n].clone_of = 0}

Touched == {<<n, a>> \in NodeIds \X {"op_args", "op_kwargs"} :
               IF a = "op_args" THEN nodes[n].args_touched
               ELSE nodes[n].kwargs_touched}

Requests == Cardinality(tasks) + Cardinality(Built)

Ops == Cardinality(Clones) + Cardinality(Touched) + Len(invocations)

ArgsOf(n) == args_heap[nodes[n].op_args]

KwargsOf(n) == kwargs_heap[nodes[n].op_kwargs]

Init ==
    /\ class_attrs = [template_fields |-> template_fields,
                      template_fields_renderers |-> template_fields_renderers,
                      shallow_copy_attrs |-> shallow_copy_attrs]
    /\ tasks = {}
    /\ nodes = <<>>
    /\ fn_heap = InitialCallables
    /\ args_heap = <<>>
    /\ kwargs_heap = <<>>
    /\ invocations = <<>>
    /\ base_calls = 0
    /\ raised = NoError

---------------------------------------------------------------------------
(* Decoration *)

\* The call site receives what the entry point returns: the factory's
\* result for the call the entry point issued, or the entry point's error.
Decorate(entry, call, pc, mo, kw) ==
    /\ ~Failed
    /\ call.kind = "call" => Requests < MaxRequests
    /\ IF call.kind = "call"
       THEN /\ tasks' = tasks \cup
                  {[entry |-> entry,
                    args |-> [python_callable |-> pc, multiple_outputs |-> mo,
                              kwargs |-> kw],
                    call |-> call,
                    result |-> task_decorator_factory(call)]}
            /\ raised' = raised
       ELSE /\ tasks' = tasks
            /\ raised' = [kind |-> call.kind, site |-> entry, missing |-> {}]
    /\ UNCHANGED <<class_attrs, nodes, fn_heap, args_heap, kwargs_heap,
                   invocations, base_calls>>

DecoratePythonTask ==
    \E pc \in CallableRefs \cup {NoneRef}, mo \in Flags, kw \in ExtraConfigs :
        Decorate("python_task", python_task(pc, mo, kw), pc, mo, kw)

DecorateMixinPython ==
    \E pc \in CallableRefs \cup {NoneRef}, mo \in Flags, kw \in ExtraConfigs :
        Decorate("python", Mixin_python(pc, mo, kw), pc, mo, kw)

DecorateMixinCall ==
    \E pc \in CallableRefs \cup {NoneRef}, mo \in Flags, kw \in ExtraConfigs :
        Decorate("__call__", Mixin_call(pc, mo, kw), pc, mo, kw)

\* A pending decorator is applied to a callable.
Apply ==
    \E t \in tasks, f \in CallableRefs :
        /\ ~Failed
        /\ Requests < MaxRequests
        /\ t.result.kind = "Pending"
        /\ tasks' = tasks \cup {[t EXCEPT !.result = ApplyDecorator(@, f)]}
        /\ UNCHANGED <<class_attrs, nodes, fn_heap, args_heap, kwargs_heap,
                       invocations, base_calls, raised>>

---------------------------------------------------------------------------
(* Node construction *)

\* _PythonDecoratedOperator(**bag), called at `site` with the containers
\* ca.args and ca.kwargs, which the caller puts on the heaps at the next
\* free references; base_ok is whether the base routine accepts the bag.
\* The containers of a failed request are unreachable and are not kept.
NewNode(site, bag, ca, task, base_ok) ==
    LET r == PythonDecoratedOperator_init(bag)
        error(kind) == [kind |-> kind, site |-> site,
                        missing |-> RequiredKeys \ DOMAIN bag]
        ok == r.kind = "super" /\ base_ok
    IN  /\ invocations' = invocations \o
               [i \in DOMAIN r.invoked |->
                   [phase |-> "construction", node |-> Len(nodes) + 1,
                    fn |-> r.invoked[i]]]
        /\ base_calls' = IF r.kind = "super" THEN base_calls + 1 ELSE base_calls
        /\ raised' = IF r.kind # "super" THEN error(r.kind)
                     ELSE IF ~base_ok THEN error("BaseError")
                     ELSE raised
        /\ args_heap' = IF ok THEN Append(args_heap, ca.args) ELSE args_heap
        /\ kwargs_heap' = IF ok THEN Append(kwargs_heap, ca.kwargs)
                          ELSE kwargs_heap
        /\ nodes' = IF ok
                    THEN Append(nodes,
                             BaseInit(r.kwargs_to_upstream, r.kwargs) @@
                             [given |-> [python_callable |-> bag["python_callable"],
                                         op_args |-> ca.args,
                                         op_kwargs |-> ca.kwargs],
                              bag_keys |-> DOMAIN bag,
                              task |-> task,
                              clone_of |-> 0,
                              args_touched |-> FALSE,
                              kwargs_touched |-> FALSE])
                    ELSE nodes
        /\ UNCHANGED <<class_attrs, tasks, fn_heap>>

\* A direct construction has no wrapped task behind it.
NoTask == [entry |-> "none"]

\* A wrapped task is invoked with (*ca.args, **ca.kwargs): one adapter
\* construction.
Invoke ==
    \E t \in tasks, ca \in CallArgs, base_ok \in BOOLEAN :
        /\ ~Failed
        /\ base_ok => Requests < MaxRequests
        /\ t.result.kind = "Completed"
        /\ NewNode("invoke",
                   FactoryBag(t.result, Len(args_heap) + 1, Len(kwargs_heap) + 1),
                   ca, t, base_ok)

\* The adapter class is constructed directly with an arbitrary keyword bag.
\* The values in the bag matter only when every required key is there.
Construct ==
    \E keys \in SUBSET (RequiredKeys \cup OptionalKeys) :
      \E pc \in IF RequiredKeys \subseteq keys THEN CallableRefs ELSE {1},
         ca \in IF RequiredKeys \subseteq keys THEN CallArgs
                ELSE {[args |-> <<>>, kwargs |-> {}]},
         base_ok \in IF RequiredKeys \subseteq keys THEN BOOLEAN ELSE {TRUE} :
        LET full == ("python_callable" :> pc)
                    @@ ("op_args" :> Len(args_heap) + 1)
                    @@ ("op_kwargs" :> Len(kwargs_heap) + 1)
                    @@ ("multiple_outputs" :> "True")
                    @@ ("kwargs_to_upstream" :> 1)
            bag == [k \in keys |-> full[k]]
        IN  /\ ~Failed
            /\ (PythonDecoratedOperator_init(bag).kind = "super" /\ base_ok)
                   => Cardinality(Built) < MaxNodes
            /\ NewNode("construct", bag, ca, NoTask, base_ok)

---------------------------------------------------------------------------
(* Node lifecycle after construction *)

\* The node is duplicated: attributes listed in shallow_copy_attrs are
\* shared, every other attribute is copied into a fresh object.
Clone ==
    \E n \in NodeIds :
        LET o == nodes[n]
            fn == CopyAttr("python_callable", o.python_callable, Len(fn_heap) + 1)
            ar == CopyAttr("op_args", o.op_args, Len(args_heap) + 1)
            kr == CopyAttr("op_kwargs", o.op_kwargs, Len(kwargs_heap) + 1)
        IN  /\ ~Failed
            /\ Ops < MaxOps
            /\ fn_heap' = IF fn = o.python_callable THEN fn_heap
                          ELSE Append(fn_heap, fn_heap[o.python_callable])
            /\ args_heap' = IF ar = o.op_args THEN args_heap
                            ELSE Append(args_heap, ArgsOf(n))
            /\ kwargs_heap' = IF kr = o.op_kwargs THEN kwargs_heap
                              ELSE Append(kwargs_heap, KwargsOf(n))
            /\ nodes' = Append(nodes,
                   [o EXCEPT !.python_callable = fn, !.op_args = ar,
                             !.op_kwargs = kr,
                             !.given = [python_callable |-> o.python_callable,
                                        op_args |-> ArgsOf(n),
                                        op_kwargs |-> KwargsOf(n)],
                             !.clone_of = n,
                             !.args_touched = FALSE,
                             !.kwargs_touched = FALSE])
            /\ UNCHANGED <<class_attrs, tasks, invocations, base_calls, raised>>

\* A node's op_args container is changed in place.
MutateArgs ==
    \E n \in NodeIds :
        /\ ~Failed
        /\ Ops < MaxOps
        /\ ~nodes[n].args_touched
        /\ args_heap' = [args_heap EXCEPT ![nodes[n].op_args] = Append(@, 0)]
        /\ nodes' = [nodes EXCEPT ![n].args_touched = TRUE]
        /\ UNCHANGED <<class_attrs, tasks, fn_heap, kwargs_heap, invocations,
                       base_calls, raised>>

\* A node's op_kwargs container is changed in place.
MutateKwargs ==
    \E n \in NodeIds :
        /\ ~Failed
        /\ Ops < MaxOps
        /\ ~nodes[n].kwargs_touched
        /\ kwargs_heap' = [kwargs_heap EXCEPT
                              ![nodes[n].op_kwargs] = @ \cup {<<"z", 0>>}]
        /\ nodes' = [nodes EXCEPT ![n].kwargs_touched = TRUE]
        /\ UNCHANGED <<class_attrs, tasks, fn_heap, args_heap, invocations,
                       base_calls, raised>>

\* The execution operator runs a constructed node: the one place where the
\* wrapped callable is called.
Execute ==
    \E n \in NodeIds :
        /\ ~Failed
        /\ Ops < MaxOps
        /\ invocations' = Append(invocations,
               [phase |-> "execution", node |-> n, fn |-> nodes[n].python_callable])
        /\ UNCHANGED <<class_attrs, tasks, nodes, fn_heap, args_heap,
                       kwargs_heap, base_calls, raised>>

---------------------------------------------------------------------------
(* Specifications *)
(* Spec is the whole module.  SpecDecorate and SpecNode are Spec restricted *)
(* to the operations of one half of the file, the entry points and the     *)
(* adapter class: every behaviour of either is a behaviour of Spec.        *)

\* Workflow definition through the entry points.
NextDecorate ==
    \/ DecoratePythonTask
    \/ DecorateMixinPython
    \/ DecorateMixinCall
    \/ Apply
    \/ Invoke
    \/ MutateArgs
    \/ MutateKwargs

SpecDecorate == Init /\ [][NextDecorate]_vars

\* The adapter class on its own: construction, duplication, execution.
NextNode ==
    \/ Construct
    \/ Clone
    \/ MutateArgs
    \/ MutateKwargs
    \/ Execute

SpecNode == Init /\ [][NextNode]_vars

Next == NextDecorate \/ NextNode

Spec == Init /\ [][Next]_vars

---------------------------------------------------------------------------
(* Properties *)

FromTask == {n \in Built : nodes[n].task.entry # "none"}

\* The node still holds the argument values it was constructed with,
\* unless its own containers were changed.
KeepsGiven(n) ==
    /\ ~nodes[n].args_touched => ArgsOf(n) = nodes[n].given.op_args
    /\ ~nodes[n].kwargs_touched => KwargsOf(n) = nodes[n].given.op_kwargs

\* C1: constructing the adapter with a keyword bag that lacks python_callable,
\* op_args or op_kwargs fails with MissingArgumentError, whatever else the
\* bag holds: no node comes from such a bag, and the error that reaches the
\* call site of such a construction is of that kind.
C1_MissingKeyRaises ==
    /\ \A n \in Built : RequiredKeys \subseteq nodes[n].bag_keys
    /\ (raised.site = "construct" /\ raised.missing # {})
           => raised.kind = MissingArgumentError

C1_Witness ==
    /\ raised.site = "construct"
    /\ raised.kind = MissingArgumentError
    /\ raised.missing = {"op_kwargs"}

C3_DeferredEqualsDirect ==
    /\ \A t \in tasks :
           (t.args.python_callable = NoneRef /\ t.result.kind = "Completed")
               => [t EXCEPT !.result.kind = "Pending",
                            !.result.python_callable = NoneRef] \in tasks
    /\ \A n \in FromTask : nodes[n].task.result.kind = "Completed"
    /\ \A t, d \in tasks :
           (/\ t.args.python_callable = NoneRef
            /\ t.result.kind = "Completed"
            /\ d.args.python_callable = t.result.python_callable
            /\ d.args.multiple_outputs = t.args.multiple_outputs
            /\ d.args.kwargs = t.args.kwargs)
           => d.result = t.result

C3_Witness ==
    \E t, d \in tasks :
        /\ t.args.python_callable = NoneRef
        /\ t.result.kind = "Completed"
        /\ d.args.python_callable = t.result.python_callable
        /\ d.args.multiple_outputs = t.args.multiple_outputs
        /\ d.args.kwargs = t.args.kwargs

\* C4: the upstream bundle holds exactly python_callable, op_args and
\* op_kwargs with the values the adapter was given, and the node's op_args
\* and op_kwargs read back equal to the (args, kwargs) of its construction.
C4_ArgumentsRoundTrip ==
    \A n \in Built :
        LET up == nodes[n].kwargs_to_upstream
        IN  /\ DOMAIN up = RequiredKeys
            /\ up["python_callable"] = nodes[n].given.python_callable
            /\ nodes[n].python_callable = up["python_callable"]
            /\ nodes[n].op_args = up["op_args"]
            /\ nodes[n].op_kwargs = up["op_kwargs"]
            /\ KeepsGiven(n)

C4_Witness ==
    \E n \in Built :
        /\ nodes[n].task.entry = "none"
        /\ ArgsOf(n) = <<3, 2>>
        /\ KwargsOf(n) = {<<"a", 1>>}

\* C5: every completed wrapping request has produced exactly one node, and
\* no two nodes share an op_args or op_kwargs container: a node whose own
\* containers were not changed still holds the values it was given.
C5_NodesIndependent ==
    /\ Cardinality(Built) = base_calls - (IF raised.kind = "BaseError" THEN 1 ELSE 0)
    /\ \A a, b \in NodeIds :
           a # b => /\ nodes[a].op_args # nodes[b].op_args
                    /\ nodes[a].op_kwargs # nodes[b].op_kwargs
    /\ \A n \in NodeIds : KeepsGiven(n)

C5_Witness ==
    \E a, b \in FromTask :
        /\ a # b
        /\ nodes[a].task = nodes[b].task
        /\ nodes[a].args_touched
        /\ ~nodes[b].args_touched

\* C6: a clone has the same callable object as its original and its own
\* op_args and op_kwargs containers: changing the clone's containers leaves
\* the original's values as they were.
C6_CloneSharesOnlyCallable ==
    \A c \in Clones :
        LET o == nodes[c].clone_of
        IN  /\ nodes[c].python_callable = nodes[o].python_callable
            /\ nodes[c].op_args # nodes[o].op_args
            /\ nodes[c].op_kwargs # nodes[o].op_kwargs
            /\ KeepsGiven(o)

C6_Witness ==
    \E c \in Clones :
        /\ nodes[c].args_touched
        /\ ~nodes[nodes[c].clone_of].args_touched
        /\ ArgsOf(c) # ArgsOf(nodes[c].clone_of)

\* C7: in every state the template fields are exactly op_args and op_kwargs,
\* each rendered as "py", and the shallow-copy attributes are exactly
\* python_callable.
C7_DeclarationsFixed ==
    /\ Range(class_attrs.template_fields) = {"op_args", "op_kwargs"}
    /\ Len(class_attrs.template_fields) = 2
    /\ class_attrs.template_fields_renderers = [op_args |-> "py", op_kwargs |-> "py"]
    /\ Range(class_attrs.shallow_copy_attrs) = {"python_callable"}
    /\ Len(class_attrs.shallow_copy_attrs) = 1

C7_Witness ==
    /\ Clones # {}
    /\ Touched # {}
    /\ Range(class_attrs.shallow_copy_attrs) = {"python_callable"}

C9_NoCallDuringConstruction ==
    [][/\ invocations' # invocations =>
              /\ nodes' = nodes
              /\ Len(invocations') = Len(invocations) + 1
              /\ invocations'[Len(invocations')].phase = "execution"
              /\ invocations'[Len(invocations')].node \in NodeIds
       /\ (Len(nodes') > Len(nodes) /\ nodes'[Len(nodes')].clone_of = 0) =>
              /\ invocations' = invocations
              /\ SubSeq(nodes', 1, Len(nodes)) = nodes
              /\ SubSeq(args_heap', 1, Len(args_heap)) = args_heap
              /\ SubSeq(kwargs_heap', 1, Len(kwargs_heap)) = kwargs_heap
              /\ fn_heap' = fn_heap
              /\ class_attrs' = class_attrs]_vars

C9_Witness ==
    /\ Len(invocations) > 0
    /\ invocations[1].phase = "execution"
    /\ invocations[1].node \in Built

\* C10: an error of a construction reaches the call site, no node results
\* from the failed request and the nodes built before are unchanged; when a
\* required key is missing the base routine has not been called.
C10_ErrorsPropagate ==
    [][/\ (raised' # NoError /\ raised = NoError) =>
              /\ nodes' = nodes
              /\ args_heap' = args_heap
              /\ kwargs_heap' = kwargs_heap
              /\ raised'.missing # {} => base_calls' = base_calls
       /\ Len(nodes') > Len(nodes) =>
              /\ raised' = NoError
              /\ RequiredKeys \subseteq nodes'[Len(nodes')].bag_keys
              /\ "kwargs_to_upstream" \notin nodes'[Len(nodes')].bag_keys]_vars

C10_Witness ==
    /\ raised.site = "construct"
    /\ raised.missing # {}
    /\ base_calls > 0
    /\ nodes # <<>>

=============================================================================
